---- MODULE Spec2Model ----
(***************************************************************************)
(* Secret Santa organiser: the Express route handlers (server/routes.ts,   *)
(* in its revisions) over the Postgres-backed DatabaseStorage              *)
(* (server/storage.ts) and the schema (shared/schema.ts).                  *)
(*                                                                         *)
(* Every `await storage.x()` of a handler is a point where another request *)
(* can run, so every database statement is one atomic step of the model    *)
(* and the synchronous code that follows it, up to the next statement, is  *)
(* part of that step.  Any statement may also throw (a persistence error), *)
(* which the handler's catch block turns into a 500 response.              *)
(***************************************************************************)
EXTENDS Integers, Sequences, FiniteSets, Bags, TLC

(* ------------------------------ bounds -------------------------------- *)

\* Largest value the serial users.id takes (the sequence is unbounded).
MaxId == 5
\* Number of requests that can be in flight at once.
NumProcs == 2
\* Number of storage calls that throw in one run.
MaxFaults == 1
\* Number of requests that arrive in one run of interleaved requests.
MaxRequests == 2

Ids == 1..MaxId
Procs == 1..NumProcs

(* -------------------------- program constants ------------------------- *)

MinUsernameLength == 3
MinRosterSize == 3

\* The route revisions kept in the repository.
\*   "session": cookie session, requireAdmin on req.user.role
\*   "open":    admin routes without any check
\*   "xuserid": stateless x-user-id header
Revisions == {"session", "open", "xuserid"}

Anonymous == 0
NoUser == [role |-> "none"]
\* A missing request field, and a NULL column.
Undefined == <<"undefined">>
Null == <<"null">>

\* Usernames are strings; the one a well-behaved admin picks for the next
\* account is taken from this list, indexed by the id the account will get.
FreshUsername == <<"admin", "alice", "Alice", "bob", "carol", "dave", "erin">>
ShortUsername == "al"

(* ------------------------------ state --------------------------------- *)

VARIABLES
    rev,            \* the revision of routes.ts that is deployed
    users,          \* table users: id -> row, or NoUser
    nextId,         \* serial sequence of users.id
    wishlistItems,  \* table wishlist_items: user_id -> its rows, in insertion order
    assignments,    \* table assignments: bag of <<giver_id, receiver_id>> rows
    appState,       \* table app_state: sequence of shuffle_completed, by row id
    req,            \* the requests in flight, one per slot
    faults,         \* storage calls that have thrown so far
    started         \* requests that have arrived so far (counted by Spec only)

vars == <<rev, users, nextId, wishlistItems, assignments, appState, req, faults,
          started>>
db == <<users, nextId, wishlistItems, assignments, appState>>

\* A request slot: the route being served (op), the storage call it is waiting
\* on (pc), req.user (caller), the request's input (arg), the handler's local
\* variables (loc; row is the app_state row setShuffleCompleted updates), the
\* role field of the posted body (role), the response sent (status, msg, body),
\* and the database as it was when the request arrived (pre; kept to state the
\* claims).
Idle ==
    [op |-> "none", pc |-> "idle", caller |-> Anonymous, arg |-> <<>>,
     stage |-> "", loc |-> <<>>, row |-> 0, role |-> "", status |-> 0, msg |-> "",
     body |-> <<>>, pre |-> <<>>]

(* ----------------------------- schema --------------------------------- *)

Exists(id) == id \in Ids /\ users[id] # NoUser

UserIds == {id \in Ids : users[id] # NoUser}

\* eq(users.role, "participant")
ParticipantIds == {id \in Ids : users[id].role = "participant"}

AdminIds == {id \in Ids : users[id].role = "admin"}

Usernames == {users[id].username : id \in UserIds}

\* app_state, as a reader sees it: getAppState returns the first row, and
\* a missing row reads as shuffleCompleted = false.
ShuffleCompleted == appState # <<>> /\ appState[1]

\* The rows of a table result, as an array indexed from 0 in ascending id.
SetToArray(S) ==
    [k \in 0..(Cardinality(S) - 1) |->
        CHOOSE x \in S : Cardinality({y \in S : y < x}) = k]

ArrayLen(a) == Cardinality(DOMAIN a)

AssignmentRows == BagToSet(assignments)
AssignmentCount == BagCardinality(assignments)
Givers == {row[1] : row \in AssignmentRows}
Receivers == {row[2] : row \in AssignmentRows}

\* ON DELETE CASCADE of assignments.giver_id / receiver_id
CascadeAssignments(bag, id) ==
    [row \in {r \in BagToSet(bag) : r[1] # id /\ r[2] # id} |-> bag[row]]

Snapshot ==
    [users |-> users, wishlistItems |-> wishlistItems,
     assignments |-> assignments, shuffleCompleted |-> ShuffleCompleted]

(* ------------------------------ Init ---------------------------------- *)

AdminRow == [username |-> FreshUsername[1], role |-> "admin", wishlistCompleted |-> FALSE]

\* A freshly provisioned database holding the seeded admin account.
Init ==
    /\ rev \in Revisions
    /\ users = [id \in Ids |-> IF id = 1 THEN AdminRow ELSE NoUser]
    /\ nextId = 2
    /\ wishlistItems = [id \in Ids |-> <<>>]
    /\ assignments = EmptyBag
    /\ appState = <<>>
    /\ req = [p \in Procs |-> Idle]
    /\ faults = 0
    /\ started = 0

\* The databases a server start finds after earlier requests: the fresh one, a
\* roster of three with their wishlists saved, and that roster shuffled.
SeededRoster == 2..4
SeededItems == <<<<"a">>, Null, Null>>

InitSeeded ==
    /\ rev \in Revisions
    /\ req = [p \in Procs |-> Idle]
    /\ faults = 0
    /\ started = 0
    /\ \E seed \in {"fresh", "ready", "shuffled"} :
         IF seed = "fresh"
         THEN /\ users = [id \in Ids |-> IF id = 1 THEN AdminRow ELSE NoUser]
              /\ nextId = 2
              /\ wishlistItems = [id \in Ids |-> <<>>]
              /\ assignments = EmptyBag
              /\ appState = <<>>
         ELSE /\ users = [id \in Ids |->
                    IF id = 1 THEN AdminRow
                    ELSE IF id \in SeededRoster
                         THEN [username |-> FreshUsername[id], role |-> "participant",
                               wishlistCompleted |-> TRUE]
                         ELSE NoUser]
              /\ nextId = 5
              /\ wishlistItems = [id \in Ids |->
                    IF id \in SeededRoster THEN <<SeededItems>> ELSE <<>>]
              /\ assignments = IF seed = "shuffled"
                               THEN SetToBag({<<2, 3>>, <<3, 4>>, <<4, 2>>})
                               ELSE EmptyBag
              /\ appState = IF seed = "shuffled" THEN <<TRUE>>
                            ELSE IF rev = "open" THEN <<>> ELSE <<FALSE>>

(* --------------------------- handler helpers -------------------------- *)

\* res.status(status).json({message: msg}) and return
Respond(r, status, msg) ==
    [r EXCEPT !.pc = "done", !.stage = "", !.loc = <<>>, !.row = 0,
              !.status = status, !.msg = msg]

RespondBody(r, status, body) ==
    [Respond(r, status, "") EXCEPT !.body = body]

\* the handler issues its next storage call and awaits it
Goto(r, pc) == [r EXCEPT !.pc = pc]

NewRequest(op, caller, arg) ==
    [Idle EXCEPT !.op = op, !.caller = caller, !.arg = arg, !.pre = Snapshot]

\* req.user as the authentication layer supplies it: an existing account or none
Callers == UserIds \cup {Anonymous}

\* The admin routes of the open revision never look at req.user.
AdminCallers == IF rev = "open" THEN {Anonymous} ELSE Callers

IsAdmin(caller) == caller \in Ids /\ users[caller].role = "admin"

\* The admin gate of a route: "ok", or the status it answers with.
\*   session: requireAdmin, 403 unless req.user.role === "admin"
\*   xuserid: requireAuth (401 without a known user), then requireAdmin (403)
\*   open:    no gate
RequireAdmin(caller) ==
    CASE rev = "open" -> 0
      [] rev = "session" -> IF IsAdmin(caller) THEN 0 ELSE 403
      [] OTHER -> IF ~Exists(caller) THEN 401
                  ELSE IF IsAdmin(caller) THEN 0 ELSE 403

\* requireAuth of the participant routes: 401 without req.user
RequireAuth(caller) == IF Exists(caller) THEN 0 ELSE 401

Denied(r, status) ==
    Respond(r, status, IF status = 401 THEN "Unauthorized" ELSE "Forbidden")

\* the texts that differ between the revisions of the routes
UsernameTooShort ==
    IF rev = "open" THEN "Username too short"
    ELSE "Username must be at least 3 characters"

PasswordTooShort ==
    IF rev = "open" THEN "Password too short"
    ELSE "Password must be at least 4 characters"

NotAllCompleted ==
    IF rev = "open" THEN "Some participants haven't completed wishlist"
    ELSE "Not all participants have completed their wishlists"

\* the text of each handler's catch block
FailedTo(op) ==
    CASE op = "appState" -> "Failed to get app state"
      [] op = "participants" -> "Failed to get participants"
      [] op = "create" -> "Failed to create participant"
      [] op = "delete" -> "Failed to delete participant"
      [] op = "wishlist" -> "Failed to save wishlist"
      [] op = "assignment" -> "Failed to get assignment"
      [] op = "shuffle" -> "Failed to shuffle"
      [] OTHER -> "Failed to reset"

(* ------------------------- Sattolo's algorithm ------------------------ *)

\* An assignment of one side only: receivers[i] = receivers[j].
SwapOneWay(a, i, j) == [a EXCEPT ![i] = a[j]]

\* [receivers[i], receivers[j]] = [receivers[j], receivers[i]]
Swap(a, i, j) == [a EXCEPT ![i] = a[j], ![j] = a[i]]

\* The Fisher-Yates draw, j <= i: what RandomIndex would be with Math.random() * (i + 1).
RandomIndexInclusive(i) == 0..i

\* The values of Math.floor(Math.random() * i): Math.random() is in [0, 1).
RandomIndex(i) == 0..(i - 1)

\* One choice of j for every i of the pass.
DrawSequences(n) ==
    {d \in [1..(n - 1) -> 0..(n - 1)] : \A i \in 1..(n - 1) : d[i] \in RandomIndex(i)}

\* A pass that swaps neighbours pairwise, ignoring the draws.
RECURSIVE SattoloPairwise(_, _, _)
SattoloPairwise(receivers, i, draws) ==
    IF i > 0
    THEN SattoloPairwise(Swap(receivers, i, i - 1), i - 2, draws)
    ELSE receivers

\* for (let i = receivers.length - 1; i > 0; i--) { swap(receivers, i, j) }
RECURSIVE SattoloFrom(_, _, _)
SattoloFrom(receivers, i, draws) ==
    IF i > 0
    THEN SattoloFrom(Swap(receivers, i, draws[i]), i - 1, draws)
    ELSE receivers

\* the number of times the body of that loop runs
RECURSIVE SattoloSwaps(_, _, _)
SattoloSwaps(receivers, i, draws) ==
    IF i > 0
    THEN 1 + SattoloSwaps(Swap(receivers, i, draws[i]), i - 1, draws)
    ELSE 0

\* const receivers = [...ids]; the pass
Sattolo(ids, draws) == SattoloFrom(ids, ArrayLen(ids) - 1, draws)

(* ------------------- getAppState / setShuffleCompleted ---------------- *)

\* What the caller of getAppState() does with the row it returns (row id k,
\* shuffleCompleted v), up to its next storage call.
AfterGetAppState(r, k, v) ==
    CASE r.stage = "set" ->
            \* setShuffleCompleted: update ... where id = state.id
            [Goto(r, "updateAppState") EXCEPT !.row = k]
      [] r.op = "appState" -> RespondBody(r, 200, v)
      [] r.op = "create" ->
            IF v THEN Respond(r, 400, "Cannot add participants after shuffle. Reset first.")
            ELSE Goto(r, "createUser")
      [] r.op = "delete" ->
            IF v THEN Respond(r, 400, "Cannot delete participants after shuffle. Reset first.")
            ELSE IF r.arg = r.caller
                 THEN Respond(r, 400, "Cannot delete yourself")
                 ELSE Goto(r, "deleteUser.getUser")
      [] OTHER -> \* shuffle
            IF v THEN Respond(r, 400, "Shuffle has already been completed. Reset first to shuffle again.")
            ELSE Goto(r, "getAllParticipants")

\* getAppState: let [state] = await db.select().from(appState)
\* The select has no ORDER BY: with several rows any of them can come first.
GetAppState(p) ==
    /\ req[p].pc = "getAppState"
    /\ IF appState = <<>>
       THEN req' = [req EXCEPT ![p] = Goto(req[p], "insertAppState")]
       ELSE \E k \in DOMAIN appState :
                req' = [req EXCEPT ![p] = AfterGetAppState(req[p], k, appState[k])]
    /\ UNCHANGED <<rev, db, faults>>

\* An insert whose row starts with shuffle_completed = true.
InsertAppStateShuffled(p) ==
    /\ req[p].pc = "insertAppState"
    /\ appState' = Append(appState, TRUE)
    /\ req' = [req EXCEPT ![p] = AfterGetAppState(req[p], Len(appState) + 1, TRUE)]
    /\ UNCHANGED <<rev, faults, users, nextId, wishlistItems, assignments>>

\* getAppState: if (!state) insert {shuffleCompleted: false} returning
InsertAppState(p) ==
    /\ req[p].pc = "insertAppState"
    /\ appState' = Append(appState, FALSE)
    /\ req' = [req EXCEPT ![p] = AfterGetAppState(req[p], Len(appState) + 1, FALSE)]
    /\ UNCHANGED <<rev, faults, users, nextId, wishlistItems, assignments>>

\* An update after which the handler never sends its response.
UpdateAppStateUnanswered(p) ==
    /\ req[p].pc = "updateAppState"
    /\ appState' = [appState EXCEPT ![req[p].row] = (req[p].op = "shuffle")]
    /\ UNCHANGED <<rev, faults, users, nextId, wishlistItems, assignments, req>>

\* setShuffleCompleted: update app_state set shuffle_completed where id = state.id;
\* shuffle passes true, reset passes false
UpdateAppState(p) ==
    /\ req[p].pc = "updateAppState"
    /\ appState' = [appState EXCEPT ![req[p].row] = (req[p].op = "shuffle")]
    /\ req' = [req EXCEPT ![p] =
                 Respond(req[p], 200,
                         IF req[p].op = "shuffle"
                         THEN IF rev = "open" THEN "Shuffle completed"
                              ELSE "Shuffle completed successfully"
                         ELSE IF rev = "open" THEN "Reset successful"
                              ELSE "Reset completed")]
    /\ UNCHANGED <<rev, faults, users, nextId, wishlistItems, assignments>>

\* await storage.setShuffleCompleted(...)
SetShuffleCompleted(r) == [Goto(r, "getAppState") EXCEPT !.stage = "set"]

(* -------------------------- POST /api/participants -------------------- *)

CreatesInFlight == Cardinality({q \in Procs : req[q].op = "create" /\ req[q].pc # "done"})

\* The body's username: the next fresh name, one already taken, or one too short.
UsernameInputs == {FreshUsername[nextId], ShortUsername} \cup Usernames
\* The body's password: missing, too short, acceptable.
PasswordInputs == {"", "abc", "secret"}
MinPasswordLength == 4
\* The body's role: none given, or one the caller would like the account to have.
RoleInputs == {"", "admin"}

CreateParticipant(p) ==
    /\ req[p].pc = "idle"
    /\ nextId + CreatesInFlight <= MaxId
    /\ \E caller \in AdminCallers, username \in UsernameInputs,
          password \in PasswordInputs, role \in RoleInputs :
         LET r == [NewRequest("create", caller, username) EXCEPT !.role = role]
             gate == RequireAdmin(caller)
         IN req' = [req EXCEPT ![p] =
              IF gate # 0 THEN Denied(r, gate)
              ELSE IF rev = "xuserid"
                   \* insertUserSchema.safeParse: any two strings pass
                   THEN Goto(r, "createUser")
              ELSE IF Len(username) < MinUsernameLength
                   THEN Respond(r, 400, UsernameTooShort)
              ELSE IF Len(password) < MinPasswordLength
                   THEN Respond(r, 400, PasswordTooShort)
              ELSE Goto(r, "getUserByUsername")]
    /\ UNCHANGED <<rev, db, faults>>

\* const existingUser = await storage.getUserByUsername(username)
GetUserByUsername(p) ==
    /\ req[p].pc = "getUserByUsername"
    /\ req' = [req EXCEPT ![p] =
         IF req[p].arg \in Usernames
         THEN Respond(req[p], 400, "Username already exists")
         ELSE IF rev = "open"
              THEN Goto(req[p], "createUser")
              ELSE [Goto(req[p], "getAppState") EXCEPT !.stage = "check"]]
    /\ UNCHANGED <<rev, db, faults>>

\* the row createUser inserts: .values({ ...insertUser, role: "participant" });
\* the handlers build insertUser from username and password alone, and
\* wishlist_completed takes its default
NewUserRow(username) ==
    [username |-> username, role |-> "participant", wishlistCompleted |-> FALSE]

\* An insert into a users table without the unique constraint on username.
CreateUserUnchecked(p) ==
    /\ req[p].pc = "createUser"
    /\ users' = [users EXCEPT ![nextId] = NewUserRow(req[p].arg)]
    /\ nextId' = nextId + 1
    /\ req' = [req EXCEPT ![p] = RespondBody(req[p], 201, nextId)]
    /\ UNCHANGED <<rev, faults, wishlistItems, assignments, appState>>

\* An insert of the posted body as it came, with "participant" as a mere default.
CreateUserAsPosted(p) ==
    /\ req[p].pc = "createUser"
    /\ IF req[p].arg \in Usernames
       THEN /\ req' = [req EXCEPT ![p] = Respond(req[p], 500, "Failed to create participant")]
            /\ UNCHANGED <<users, nextId>>
       ELSE /\ users' = [users EXCEPT ![nextId] =
                  [NewUserRow(req[p].arg) EXCEPT
                      !.role = IF req[p].role = "" THEN "participant" ELSE req[p].role]]
            /\ nextId' = nextId + 1
            /\ req' = [req EXCEPT ![p] = RespondBody(req[p], 201, nextId)]
    /\ UNCHANGED <<rev, faults, wishlistItems, assignments, appState>>

\* storage.createUser: insert into users ... returning; users.username is unique,
\* a duplicate makes the insert throw
CreateUser(p) ==
    /\ req[p].pc = "createUser"
    /\ IF req[p].arg \in Usernames
       THEN /\ req' = [req EXCEPT ![p] = Respond(req[p], 500, "Failed to create participant")]
            /\ UNCHANGED <<users, nextId>>
       ELSE /\ users' = [users EXCEPT ![nextId] = NewUserRow(req[p].arg)]
            /\ nextId' = nextId + 1
            /\ req' = [req EXCEPT ![p] = RespondBody(req[p], 201, nextId)]
    /\ UNCHANGED <<rev, faults, wishlistItems, assignments, appState>>

(* ----------------------- DELETE /api/participants/:id ----------------- *)

DeleteParticipant(p) ==
    /\ req[p].pc = "idle"
    /\ \E caller \in AdminCallers, id \in Ids :
         LET r == NewRequest("delete", caller, id)
             gate == RequireAdmin(caller)
         IN req' = [req EXCEPT ![p] =
              IF gate # 0 THEN Denied(r, gate)
              ELSE IF rev = "open"
                   THEN Goto(r, "deleteUser.getUser")
                   ELSE [Goto(r, "getAppState") EXCEPT !.stage = "check"]]
    /\ UNCHANGED <<rev, db, faults>>

\* storage.deleteUser: const user = await this.getUser(id);
\* if (user?.role === "admin") throw
DeleteUserGetUser(p) ==
    /\ req[p].pc = "deleteUser.getUser"
    /\ req' = [req EXCEPT ![p] =
         IF IsAdmin(req[p].arg)
         THEN Respond(req[p], 500, "Failed to delete participant")
         ELSE Goto(req[p], "deleteUser")]
    /\ UNCHANGED <<rev, db, faults>>

\* A delete that removes the users row alone, leaving the rows that reference it.
DeleteUserOnly(p) ==
    /\ req[p].pc = "deleteUser"
    /\ users' = [users EXCEPT ![req[p].arg] = NoUser]
    /\ req' = [req EXCEPT ![p] = Respond(req[p], 200, "OK")]
    /\ UNCHANGED <<rev, faults, nextId, appState, wishlistItems, assignments>>

\* storage.deleteUser: delete from users where id = ...; wishlist_items and
\* assignments rows go with it (onDelete: cascade). No row deleted is no error.
DeleteUser(p) ==
    /\ req[p].pc = "deleteUser"
    /\ LET id == req[p].arg IN
         /\ users' = [users EXCEPT ![id] = NoUser]
         /\ wishlistItems' = [wishlistItems EXCEPT ![id] = <<>>]
         /\ assignments' = CascadeAssignments(assignments, id)
    /\ req' = [req EXCEPT ![p] = Respond(req[p], 200, "OK")]
    /\ UNCHANGED <<rev, faults, nextId, appState>>

(* ---------------------------- POST /api/shuffle ----------------------- *)

Shuffle(p) ==
    /\ req[p].pc = "idle"
    /\ \E caller \in AdminCallers :
         LET r == NewRequest("shuffle", caller, <<>>)
             gate == RequireAdmin(caller)
         IN req' = [req EXCEPT ![p] =
              IF gate # 0 THEN Denied(r, gate)
              ELSE IF rev = "open"
                   THEN Goto(r, "getAllParticipants")
                   ELSE [Goto(r, "getAppState") EXCEPT !.stage = "check"]]
    /\ UNCHANGED <<rev, db, faults>>

\* A shuffle that skips the completion check: every roster passes.
AllCompletedSkipped(ids) == DOMAIN ids = DOMAIN ids

\* participants.every(p => p.wishlistCompleted)
AllCompleted(ids) == \A k \in DOMAIN ids : users[ids[k]].wishlistCompleted

\* const participants = await storage.getAllParticipants(), and the two
\* precondition checks of the shuffle; GET /api/participants answers with the list
GetAllParticipants(p) ==
    /\ req[p].pc = "getAllParticipants"
    /\ LET participants == SetToArray(ParticipantIds) IN
       req' = [req EXCEPT ![p] =
         IF req[p].op = "participants"
         THEN RespondBody(req[p], 200, participants)
         ELSE IF ArrayLen(participants) < MinRosterSize
              THEN Respond(req[p], 400, "Need at least 3 participants to shuffle")
         ELSE IF ~AllCompleted(participants)
              THEN Respond(req[p], 400, NotAllCompleted)
         ELSE [Goto(req[p], "deleteAllAssignments") EXCEPT !.loc = [ids |-> participants]]]
    /\ UNCHANGED <<rev, db, faults>>

\* A deleteAllAssignments that empties wishlist_items as well.
DeleteAllAssignmentsAndWishlists(p) ==
    /\ req[p].pc = "deleteAllAssignments"
    /\ assignments' = EmptyBag
    /\ wishlistItems' = [id \in Ids |-> <<>>]
    /\ IF req[p].op = "shuffle"
       THEN \E draws \in DrawSequences(ArrayLen(req[p].loc.ids)) :
              req' = [req EXCEPT ![p] =
                 [Goto(req[p], "createAssignment") EXCEPT
                    !.loc = [ids |-> req[p].loc.ids,
                             receivers |-> Sattolo(req[p].loc.ids, draws),
                             i |-> 0]]]
       ELSE req' = [req EXCEPT ![p] = SetShuffleCompleted(req[p])]
    /\ UNCHANGED <<rev, faults, users, nextId, appState>>

\* A deleteAllAssignments that deletes nothing.
DeleteAllAssignmentsKept(p) ==
    /\ req[p].pc = "deleteAllAssignments"
    /\ IF req[p].op = "shuffle"
       THEN \E draws \in DrawSequences(ArrayLen(req[p].loc.ids)) :
              req' = [req EXCEPT ![p] =
                 [Goto(req[p], "createAssignment") EXCEPT
                    !.loc = [ids |-> req[p].loc.ids,
                             receivers |-> Sattolo(req[p].loc.ids, draws),
                             i |-> 0]]]
       ELSE req' = [req EXCEPT ![p] = SetShuffleCompleted(req[p])]
    /\ UNCHANGED <<rev, faults, db>>

\* await storage.deleteAllAssignments(); in the shuffle the Sattolo pass follows
\* synchronously, in reset the call of setShuffleCompleted(false)
DeleteAllAssignments(p) ==
    /\ req[p].pc = "deleteAllAssignments"
    /\ assignments' = EmptyBag
    /\ IF req[p].op = "shuffle"
       THEN \E draws \in DrawSequences(ArrayLen(req[p].loc.ids)) :
              req' = [req EXCEPT ![p] =
                 [Goto(req[p], "createAssignment") EXCEPT
                    !.loc = [ids |-> req[p].loc.ids,
                             receivers |-> Sattolo(req[p].loc.ids, draws),
                             i |-> 0]]]
       ELSE req' = [req EXCEPT ![p] = SetShuffleCompleted(req[p])]
    /\ UNCHANGED <<rev, faults, users, nextId, wishlistItems, appState>>

\* for (let i = 0; i < ids.length; i++) await storage.createAssignment(ids[i], receivers[i]);
\* giver_id and receiver_id reference users.id: a missing user makes the insert throw
CreateAssignment(p) ==
    /\ req[p].pc = "createAssignment"
    /\ LET l == req[p].loc
           giverId == l.ids[l.i]
           receiverId == l.receivers[l.i]
       IN IF Exists(giverId) /\ Exists(receiverId)
          THEN /\ assignments' = assignments (+) SetToBag({<<giverId, receiverId>>})
               /\ req' = [req EXCEPT ![p] =
                    IF l.i + 1 < ArrayLen(l.ids)
                    THEN [req[p] EXCEPT !.loc = [l EXCEPT !.i = l.i + 1]]
                    ELSE SetShuffleCompleted(req[p])]
          ELSE /\ req' = [req EXCEPT ![p] = Respond(req[p], 500, "Failed to shuffle")]
               /\ UNCHANGED assignments
    /\ UNCHANGED <<rev, faults, users, nextId, wishlistItems, appState>>

(* ----------------------------- POST /api/reset ------------------------ *)

Reset(p) ==
    /\ req[p].pc = "idle"
    /\ \E caller \in AdminCallers :
         LET r == NewRequest("reset", caller, <<>>)
             gate == RequireAdmin(caller)
         IN req' = [req EXCEPT ![p] =
              IF gate # 0 THEN Denied(r, gate) ELSE Goto(r, "deleteAllAssignments")]
    /\ UNCHANGED <<rev, db, faults>>

(* --------------------------- POST /api/my-wishlist -------------------- *)

\* String.prototype.trim on a text given as its sequence of characters
RECURSIVE TrimStart(_)
TrimStart(s) == IF s # <<>> /\ Head(s) = " " THEN TrimStart(Tail(s)) ELSE s

RECURSIVE TrimEnd(_)
TrimEnd(s) ==
    IF s # <<>> /\ s[Len(s)] = " " THEN TrimEnd(SubSeq(s, 1, Len(s) - 1)) ELSE s

Trim(s) == TrimEnd(TrimStart(s))

\* item?.trim() || ""
Trimmed(item) == IF item = Undefined THEN <<>> ELSE Trim(item)

\* trimmedItem || undefined: the argument createOrUpdateWishlist gets for the
\* item. Null stands for undefined here, and for a NULL column in a stored row.
Stored(item) == IF Trimmed(item) = <<>> THEN Null ELSE Trimmed(item)

\* Bodies a participant posts: nothing but blanks, one idea, three ideas.
BlankWishlist == <<Undefined, <<>>, <<" ">>>>
OneItemWishlist == <<<<" ", "a">>, Undefined, <<>>>>
FullWishlist == <<<<"a">>, <<"b", " ">>, <<"c">>>>

WishlistInputs == {BlankWishlist, OneItemWishlist, FullWishlist}

SaveWishlist(p, bodies) ==
    /\ req[p].pc = "idle"
    /\ \E caller \in Callers, body \in bodies :
         LET items == <<Stored(body[1]), Stored(body[2]), Stored(body[3])>>
             r == NewRequest("wishlist", caller, items)
             gate == RequireAuth(caller)
         IN req' = [req EXCEPT ![p] =
              IF gate # 0 THEN Denied(r, gate)
              ELSE IF rev # "open" /\ items = <<Null, Null, Null>>
                   THEN Respond(r, 400, "At least one wishlist item is required")
                   ELSE Goto(r, "getWishlistByUserId")]
    /\ UNCHANGED <<rev, db, faults>>

\* A lookup that never finds the entry, so that every save inserts.
GetWishlistByUserIdNotFound(p) ==
    /\ req[p].pc = "getWishlistByUserId"
    /\ req' = [req EXCEPT ![p] = Goto(req[p], "insertWishlist")]
    /\ UNCHANGED <<rev, db, faults>>

\* createOrUpdateWishlist: const existing = await this.getWishlistByUserId(userId)
GetWishlistByUserId(p) ==
    /\ req[p].pc = "getWishlistByUserId"
    /\ req' = [req EXCEPT ![p] =
         IF wishlistItems[req[p].caller] # <<>>
         THEN Goto(req[p], "updateWishlist")
         ELSE Goto(req[p], "insertWishlist")]
    /\ UNCHANGED <<rev, db, faults>>

\* .update(wishlistItems).set({ item1, item2, item3 }): the query builder leaves
\* out of the SET list every key whose value is undefined, so such a column
\* keeps the value it has
UpdateSet(row, items) ==
    [k \in DOMAIN row |-> IF items[k] = Null THEN row[k] ELSE items[k]]

\* update wishlist_items set ... where user_id = userId; with all three values
\* undefined the builder has nothing to set and throws
UpdateWishlist(p) ==
    /\ req[p].pc = "updateWishlist"
    /\ IF req[p].arg = <<Null, Null, Null>>
       THEN /\ req' = [req EXCEPT ![p] = Respond(req[p], 500, "Failed to save wishlist")]
            /\ UNCHANGED wishlistItems
       ELSE /\ wishlistItems' = [wishlistItems EXCEPT ![req[p].caller] =
                                    [k \in DOMAIN @ |-> UpdateSet(@[k], req[p].arg)]]
            /\ req' = [req EXCEPT ![p] = Goto(req[p], "updateUserWishlistStatus")]
    /\ UNCHANGED <<rev, faults, users, nextId, assignments, appState>>

\* insert into wishlist_items (user_id, ...); user_id references users.id
InsertWishlist(p) ==
    /\ req[p].pc = "insertWishlist"
    /\ IF Exists(req[p].caller)
       THEN /\ wishlistItems' = [wishlistItems EXCEPT ![req[p].caller] =
                                    Append(@, req[p].arg)]
            /\ req' = [req EXCEPT ![p] = Goto(req[p], "updateUserWishlistStatus")]
       ELSE /\ req' = [req EXCEPT ![p] = Respond(req[p], 500, "Failed to save wishlist")]
            /\ UNCHANGED wishlistItems
    /\ UNCHANGED <<rev, faults, users, nextId, assignments, appState>>

\* A save that stores the entry and leaves the user's flag alone.
UpdateUserWishlistStatusSkipped(p) ==
    /\ req[p].pc = "updateUserWishlistStatus"
    /\ req' = [req EXCEPT ![p] =
         IF rev = "open"
         THEN RespondBody(req[p], 200, req[p].arg)
         ELSE Goto(req[p], "getUser")]
    /\ UNCHANGED <<rev, faults, users, nextId, wishlistItems, assignments, appState>>

\* await storage.updateUserWishlistStatus(req.user.id, true)
UpdateUserWishlistStatus(p) ==
    /\ req[p].pc = "updateUserWishlistStatus"
    /\ users' = IF Exists(req[p].caller)
                THEN [users EXCEPT ![req[p].caller].wishlistCompleted = TRUE]
                ELSE users
    /\ req' = [req EXCEPT ![p] =
         IF rev = "open"
         THEN RespondBody(req[p], 200, req[p].arg)
         ELSE Goto(req[p], "getUser")]
    /\ UNCHANGED <<rev, faults, nextId, wishlistItems, assignments, appState>>

\* const updatedUser = await storage.getUser(req.user.id)
GetUser(p) ==
    /\ req[p].pc = "getUser"
    /\ req' = [req EXCEPT ![p] = RespondBody(req[p], 200, req[p].arg)]
    /\ UNCHANGED <<rev, db, faults>>

(* ------------------------------ read routes --------------------------- *)

\* GET /api/app-state
ReadAppState(p) ==
    /\ req[p].pc = "idle"
    /\ \E caller \in Callers :
         LET r == NewRequest("appState", caller, <<>>)
             gate == IF rev = "session" THEN RequireAuth(caller) ELSE 0
         IN req' = [req EXCEPT ![p] =
              IF gate # 0 THEN Denied(r, gate)
              ELSE [Goto(r, "getAppState") EXCEPT !.stage = "read"]]
    /\ UNCHANGED <<rev, db, faults>>

\* GET /api/participants
ReadParticipants(p) ==
    /\ req[p].pc = "idle"
    /\ \E caller \in AdminCallers :
         LET r == NewRequest("participants", caller, <<>>)
             gate == RequireAdmin(caller)
         IN req' = [req EXCEPT ![p] =
              IF gate # 0 THEN Denied(r, gate) ELSE Goto(r, "getAllParticipants")]
    /\ UNCHANGED <<rev, db, faults>>

\* GET /api/my-assignment
ReadAssignment(p) ==
    /\ req[p].pc = "idle"
    /\ \E caller \in Callers :
         LET r == NewRequest("assignment", caller, <<>>)
             gate == RequireAuth(caller)
         IN req' = [req EXCEPT ![p] =
              IF gate # 0 THEN Denied(r, gate) ELSE Goto(r, "findAssignment")]
    /\ UNCHANGED <<rev, db, faults>>

\* getAssignmentByGiverId: findFirst where giver_id = giverId
FindAssignment(p) ==
    /\ req[p].pc = "findAssignment"
    /\ LET rows == {row \in AssignmentRows : row[1] = req[p].caller} IN
       IF rows = {}
       THEN req' = [req EXCEPT ![p] = RespondBody(req[p], 200, Null)]
       ELSE \E row \in rows :
              req' = [req EXCEPT ![p] =
                 [Goto(req[p], "findReceiver") EXCEPT !.loc = [result |-> row]]]
    /\ UNCHANGED <<rev, db, faults>>

\* getAssignmentByGiverId: findFirst users where id = result.receiverId
FindReceiver(p) ==
    /\ req[p].pc = "findReceiver"
    /\ req' = [req EXCEPT ![p] =
         IF Exists(req[p].loc.result[2])
         THEN RespondBody(req[p], 200, req[p].loc.result)
         ELSE RespondBody(req[p], 200, Null)]
    /\ UNCHANGED <<rev, db, faults>>

(* ----------------------- startup admin normalization ------------------ *)

\* the task has ended; msg keeps what it wrote to the log
Logged(r, msg) == [r EXCEPT !.pc = "done", !.loc = <<>>, !.msg = msg]

\* db.ts runs its startup task when the server process starts
Startup(p) ==
    /\ req[p].pc = "idle"
    /\ req' = [req EXCEPT ![p] =
                 Goto(NewRequest("startup", Anonymous, <<>>), "selectAdmins")]
    /\ UNCHANGED <<rev, db, faults>>

\* Keeping the admin with the largest id instead.
LastAdminId(adminRows) == adminRows[ArrayLen(adminRows) - 1]

\* const firstAdminId = adminRows[0].id
FirstAdminId(adminRows) == adminRows[0]

\* SELECT id FROM users WHERE role = 'admin' ORDER BY id ASC
SelectAdmins(p) ==
    /\ req[p].pc = "selectAdmins"
    /\ LET adminRows == SetToArray(AdminIds) IN
       req' = [req EXCEPT ![p] =
         IF ArrayLen(adminRows) > 1
         THEN [Goto(req[p], "demoteAdmins") EXCEPT
                  !.loc = [firstAdminId |-> FirstAdminId(adminRows)]]
         ELSE IF ArrayLen(adminRows) = 0
              THEN Goto(req[p], "selectEarliest")
              ELSE Logged(req[p], "Exactly one admin exists")]
    /\ UNCHANGED <<rev, db, faults>>

\* UPDATE users SET role = 'participant' WHERE role = 'admin' AND id != $1
DemoteAdmins(p) ==
    /\ req[p].pc = "demoteAdmins"
    /\ users' = [id \in Ids |->
                   IF users[id].role = "admin" /\ id # req[p].loc.firstAdminId
                   THEN [users[id] EXCEPT !.role = "participant"]
                   ELSE users[id]]
    /\ req' = [req EXCEPT ![p] = Logged(req[p], "Normalized admins")]
    /\ UNCHANGED <<rev, faults, nextId, wishlistItems, assignments, appState>>

\* SELECT id FROM users ORDER BY id ASC LIMIT 1
SelectEarliest(p) ==
    /\ req[p].pc = "selectEarliest"
    /\ LET earliest == SetToArray(UserIds) IN
       req' = [req EXCEPT ![p] =
         IF ArrayLen(earliest) >= 1
         THEN [Goto(req[p], "promoteUser") EXCEPT !.loc = [promoteId |-> earliest[0]]]
         ELSE Logged(req[p], "No users found to promote to admin")]
    /\ UNCHANGED <<rev, db, faults>>

\* UPDATE users SET role = 'admin' WHERE id = $1
PromoteUser(p) ==
    /\ req[p].pc = "promoteUser"
    /\ users' = IF Exists(req[p].loc.promoteId)
                THEN [users EXCEPT ![req[p].loc.promoteId].role = "admin"]
                ELSE users
    /\ req' = [req EXCEPT ![p] = Logged(req[p], "Promoted user to admin")]
    /\ UNCHANGED <<rev, faults, nextId, wishlistItems, assignments, appState>>

(* ------------------------- failures and responses --------------------- *)

StorageCalls ==
    {"getAppState", "insertAppState", "updateAppState", "getUserByUsername",
     "createUser", "deleteUser.getUser", "deleteUser", "getAllParticipants",
     "deleteAllAssignments", "createAssignment", "getWishlistByUserId",
     "updateWishlist", "insertWishlist", "updateUserWishlistStatus", "getUser",
     "findAssignment", "findReceiver"}

\* the awaited storage call rejects; every handler's catch answers 500
StorageFails(p) ==
    /\ req[p].pc \in StorageCalls
    /\ faults < MaxFaults
    /\ faults' = faults + 1
    /\ req' = [req EXCEPT ![p] = Respond(req[p], 500, FailedTo(req[p].op))]
    /\ UNCHANGED <<rev, db>>

\* the response has been sent and the slot is free again
Return(p) ==
    /\ req[p].pc = "done"
    /\ req' = [req EXCEPT ![p] = Idle]
    /\ UNCHANGED <<rev, db, faults>>

(* ---------------------------- specifications -------------------------- *)

Begin(p, bodies) ==
    \/ CreateParticipant(p)
    \/ DeleteParticipant(p)
    \/ SaveWishlist(p, bodies)
    \/ Shuffle(p)
    \/ Reset(p)
    \/ ReadAppState(p)
    \/ ReadParticipants(p)
    \/ ReadAssignment(p)

Step(p) ==
    \/ GetAppState(p)
    \/ InsertAppState(p)
    \/ UpdateAppState(p)
    \/ GetUserByUsername(p)
    \/ CreateUser(p)
    \/ DeleteUserGetUser(p)
    \/ DeleteUser(p)
    \/ GetAllParticipants(p)
    \/ DeleteAllAssignments(p)
    \/ CreateAssignment(p)
    \/ GetWishlistByUserId(p)
    \/ UpdateWishlist(p)
    \/ InsertWishlist(p)
    \/ UpdateUserWishlistStatus(p)
    \/ GetUser(p)
    \/ FindAssignment(p)
    \/ FindReceiver(p)
    \/ Return(p)

\* The wishlist bodies posted where the wishlist's content is not the subject.
PlainWishlists == {BlankWishlist, OneItemWishlist}

\* Requests served one at a time, every storage call succeeding.
SeqNext == (Begin(1, PlainWishlists) \/ Step(1)) /\ UNCHANGED started

SeqSpec == Init /\ [][SeqNext]_vars

\* Requests served one at a time; a storage call may throw.
FaultNext == (Begin(1, PlainWishlists) \/ Step(1) \/ StorageFails(1)) /\ UNCHANGED started

FaultSpec == Init /\ [][FaultNext]_vars

\* Accounts are created and wishlists saved, one request at a time, the bodies
\* ranging over all of WishlistInputs.
WishBegin(p) == CreateParticipant(p) \/ SaveWishlist(p, WishlistInputs)

WishStep(p) ==
    \/ GetAppState(p)
    \/ InsertAppState(p)
    \/ GetUserByUsername(p)
    \/ CreateUser(p)
    \/ GetWishlistByUserId(p)
    \/ UpdateWishlist(p)
    \/ InsertWishlist(p)
    \/ UpdateUserWishlistStatus(p)
    \/ GetUser(p)
    \/ Return(p)

WishNext == (WishBegin(1) \/ WishStep(1)) /\ UNCHANGED started

WishSpec == Init /\ [][WishNext]_vars

\* Requests served one at a time on a database found shuffled at server start.
InitShuffled == InitSeeded /\ appState = <<TRUE>>

\* app_state has its row from the start, so getAppState never has to insert it.
ShuffledStep(p) ==
    \/ GetAppState(p)
    \/ UpdateAppState(p)
    \/ GetUserByUsername(p)
    \/ CreateUser(p)
    \/ DeleteUserGetUser(p)
    \/ DeleteUser(p)
    \/ GetAllParticipants(p)
    \/ DeleteAllAssignments(p)
    \/ CreateAssignment(p)
    \/ GetWishlistByUserId(p)
    \/ UpdateWishlist(p)
    \/ InsertWishlist(p)
    \/ UpdateUserWishlistStatus(p)
    \/ GetUser(p)
    \/ FindAssignment(p)
    \/ FindReceiver(p)
    \/ Return(p)

ShuffledNext == (Begin(1, PlainWishlists) \/ ShuffledStep(1)) /\ UNCHANGED started

ShuffledSpec == InitShuffled /\ [][ShuffledNext]_vars

\* The users tables a server start can find: accounts 1..MaxFound left by earlier
\* deployments, with any roles (none, one or several admins), or no account yet.
MaxFound == 2

FoundTables ==
    {[id \in Ids |->
        IF id <= MaxFound /\ roles[id] # "none"
        THEN [username |-> FreshUsername[id], role |-> roles[id],
              wishlistCompleted |-> FALSE]
        ELSE NoUser] : roles \in [1..MaxFound -> {"none", "participant", "admin"}]}

\* The server process starts: the startup task is the first thing to run.
InitStartup ==
    /\ rev \in Revisions
    /\ users \in FoundTables
    /\ nextId = MaxFound + 1
    /\ wishlistItems = [id \in Ids |-> <<>>]
    /\ assignments = EmptyBag
    /\ appState = <<>>
    /\ req = [p \in Procs |->
                IF p = 1
                THEN [Idle EXCEPT !.op = "startup", !.pc = "selectAdmins",
                                  !.pre = [users |-> users,
                                           wishlistItems |-> [id \in Ids |-> <<>>],
                                           assignments |-> EmptyBag,
                                           shuffleCompleted |-> FALSE]]
                ELSE Idle]
    /\ faults = 0
    /\ started = 0

\* After the startup task, requests are served one at a time; the process may
\* be restarted between requests.
StartupBegin(p) ==
    \/ Startup(p)
    \/ CreateParticipant(p)
    \/ DeleteParticipant(p)
    \/ SaveWishlist(p, {OneItemWishlist})
    \/ Shuffle(p)
    \/ Reset(p)
    \/ ReadParticipants(p)

StartupStep(p) ==
    \/ SelectAdmins(p)
    \/ DemoteAdmins(p)
    \/ SelectEarliest(p)
    \/ PromoteUser(p)
    \/ GetAppState(p)
    \/ InsertAppState(p)
    \/ UpdateAppState(p)
    \/ GetUserByUsername(p)
    \/ CreateUser(p)
    \/ DeleteUserGetUser(p)
    \/ DeleteUser(p)
    \/ GetAllParticipants(p)
    \/ DeleteAllAssignments(p)
    \/ CreateAssignment(p)
    \/ GetWishlistByUserId(p)
    \/ UpdateWishlist(p)
    \/ InsertWishlist(p)
    \/ UpdateUserWishlistStatus(p)
    \/ GetUser(p)
    \/ Return(p)

StartupNext == (StartupBegin(1) \/ StartupStep(1)) /\ UNCHANGED started

StartupSpec == InitStartup /\ [][StartupNext]_vars

\* Requests served one at a time on the database found shuffled; a storage call
\* may throw, and every storage call a handler awaits eventually returns or
\* throws (the handler then runs on to its next await or to its response).
LiveStep(p) == (ShuffledStep(p) \/ StorageFails(p)) /\ UNCHANGED started

LiveNext == (Begin(1, PlainWishlists) /\ UNCHANGED started) \/ LiveStep(1)

LiveSpec == InitShuffled /\ [][LiveNext]_vars /\ WF_vars(LiveStep(1))

\* Requests arrive at any time: the handlers interleave at their awaits.
Next ==
    \E p \in Procs :
        \/ Begin(p, PlainWishlists) /\ started < MaxRequests /\ started' = started + 1
        \/ (Step(p) \/ StorageFails(p)) /\ UNCHANGED started

Spec == InitSeeded /\ [][Next]_vars

(* ------------------------------- claims ------------------------------- *)

Responded(p, op) == req[p].op = op /\ req[p].pc = "done"
Succeeded(p, op) == Responded(p, op) /\ req[p].status \in {200, 201}
Serving(p, op) == req[p].op = op /\ req[p].pc # "idle"

\* rows of the assignment table with the given giver / receiver
RowsGivenBy(id) ==
    BagCardinality([row \in {r \in AssignmentRows : r[1] = id} |-> assignments[row]])
RowsReceivedBy(id) ==
    BagCardinality([row \in {r \in AssignmentRows : r[2] = id} |-> assignments[row]])

RosterSize == Cardinality(ParticipantIds)

DerangementOfRoster ==
    /\ AssignmentCount = RosterSize
    /\ \A id \in ParticipantIds : RowsGivenBy(id) = 1 /\ RowsReceivedBy(id) = 1
    /\ \A row \in AssignmentRows : row[1] # row[2]

\* C1: after a successful shuffle() of a roster of n >= 3 completed participants
\* the assignment table has exactly n rows, every roster id is giver of exactly
\* one row and receiver of exactly one, and no row has giverId = receiverId.
C1_Derangement ==
    \A p \in Procs :
        Succeeded(p, "shuffle") =>
            /\ RosterSize >= MinRosterSize
            /\ \A id \in ParticipantIds : users[id].wishlistCompleted
            /\ DerangementOfRoster

C1_Witness ==
    \E p \in Procs : Succeeded(p, "shuffle") /\ RosterSize = 4 /\ AssignmentCount = 4

ReceiverOf(id) == CHOOSE r \in Ids : <<id, r>> \in AssignmentRows

\* the participants met by following k receiver links from id
RECURSIVE Walk(_, _)
Walk(id, k) == IF k = 0 THEN {} ELSE {ReceiverOf(id)} \cup Walk(ReceiverOf(id), k - 1)

SingleCycle ==
    /\ \A id \in ParticipantIds : \E r \in Ids : <<id, r>> \in AssignmentRows
    /\ \A id \in ParticipantIds :
          /\ Walk(id, RosterSize) = ParticipantIds
          /\ id \notin Walk(id, RosterSize - 1)

\* C2: after a successful shuffle() the giver -> receiver mapping is one cycle
\* over the whole roster: following receiver links from any participant visits
\* all n participants and returns to the start only after n links.
C2_SingleCycle ==
    \A p \in Procs : Succeeded(p, "shuffle") => SingleCycle

C2_Witness ==
    \E p \in Procs :
        /\ Succeeded(p, "shuffle")
        /\ RosterSize = 4
        /\ Walk(2, 4) = ParticipantIds

\* C3: in every reachable state shuffleCompleted = true holds exactly when the
\* assignment table is non-empty and has as many rows as there are non-admin
\* participants.
C3_ShuffleCompletedIffFullSet ==
    ShuffleCompleted <=> (AssignmentCount > 0 /\ AssignmentCount = RosterSize)

\* the rows a shuffle in flight is inserting: ids[k] -> receivers[k]
NewRows(p) ==
    {<<req[p].loc.ids[k], req[p].loc.receivers[k]>> : k \in DOMAIN req[p].loc.ids}

Inserting(p) ==
    /\ req[p].op = "shuffle"
    /\ req[p].pc \in {"createAssignment", "getAppState", "insertAppState", "updateAppState"}
    /\ req[p].stage # "check"

\* the table holds some but not all of the rows of the shuffle in flight
PartialAssignmentSet(p) ==
    /\ Inserting(p)
    /\ assignments # EmptyBag
    /\ assignments # req[p].pre.assignments
    /\ assignments # SetToBag(NewRows(p))

\* C4: a reader running concurrently with shuffle() never runs against a partial
\* assignment set: no lookup of a participant's assignment finds a row while the
\* table holds only part of the rows a shuffle is inserting.
C4_ReadersSeeNoPartialSet ==
    [][\A q \in Procs :
          (req[q].pc = "findAssignment" /\ req'[q].pc = "findReceiver")
              => ~ \E p \in Procs : PartialAssignmentSet(p)]_vars

\* C5: a shuffle() that fails on a persistence error leaves either the assignment
\* set that existed before the call or no assignments at all, and leaves
\* shuffleCompleted unchanged.
C5_FailedShuffleAllOrNothing ==
    \A p \in Procs :
        (Responded(p, "shuffle") /\ req[p].status = 500) =>
            /\ assignments \in {req[p].pre.assignments, EmptyBag}
            /\ ShuffleCompleted = req[p].pre.shuffleCompleted

AdminMutations == {"create", "delete", "shuffle", "reset"}

InFlight(p) == req[p].op \in AdminMutations /\ req[p].pc \in StorageCalls

\* C6: at most one of createParticipant, deleteParticipant, shuffle and reset is
\* in flight at any time.
C6_OneAdminMutationInFlight ==
    Cardinality({p \in Procs : InFlight(p)}) <= 1

\* the roster of a snapshot is too small or has an incomplete wishlist
NotShuffleReady(snap) ==
    LET roster == {id \in Ids : snap.users[id].role = "participant"} IN
        \/ Cardinality(roster) < MinRosterSize
        \/ \E id \in roster : ~snap.users[id].wishlistCompleted

\* C7: shuffle() on a roster of fewer than 3 participants, or with a participant
\* whose wishlistCompleted is false, fails, and the assignment set and
\* shuffleCompleted stay as they were before the call.
C7_PreconditionRejection ==
    \A p \in Procs :
        (Serving(p, "shuffle") /\ NotShuffleReady(req[p].pre)) =>
            /\ assignments = req[p].pre.assignments
            /\ ShuffleCompleted = req[p].pre.shuffleCompleted
            /\ req[p].pc = "done" => req[p].status \notin {200, 201}

C7_Witness ==
    \E p \in Procs :
        /\ Responded(p, "shuffle")
        /\ NotShuffleReady(req[p].pre)
        /\ req[p].status = 400
        /\ req[p].msg = NotAllCompleted
        /\ RosterSize >= MinRosterSize

\* C8: after a successful shuffle(), a further shuffle() before a reset() fails
\* and leaves the assignment set unchanged.
C8_SecondShuffleRejected ==
    \A p \in Procs :
        (Serving(p, "shuffle") /\ req[p].pre.shuffleCompleted) =>
            /\ assignments = req[p].pre.assignments
            /\ req[p].pc = "done" => req[p].status \notin {200, 201}

\* C9: createParticipant while shuffleCompleted = true fails and adds no
\* participant.
C9_NoCreateWhileShuffled ==
    \A p \in Procs :
        (Serving(p, "create") /\ req[p].pre.shuffleCompleted) =>
            /\ users = req[p].pre.users
            /\ req[p].pc = "done" => req[p].status \notin {200, 201}

\* C10: deleteParticipant while shuffleCompleted = true fails and removes no
\* participant, wishlist entry or assignment row.
C10_NoDeleteWhileShuffled ==
    \A p \in Procs :
        (Serving(p, "delete") /\ req[p].pre.shuffleCompleted) =>
            /\ users = req[p].pre.users
            /\ wishlistItems = req[p].pre.wishlistItems
            /\ assignments = req[p].pre.assignments
            /\ req[p].pc = "done" => req[p].status \notin {200, 201}

\* the step is the update that ends setShuffleCompleted in a request of this kind
FlipBy(op) ==
    \E p \in Procs :
        /\ req[p].op = op
        /\ req[p].pc = "updateAppState"
        /\ req'[p].pc = "done"
        /\ req'[p].status = 200

\* C11: shuffleCompleted changes from false to true only in the last step of a
\* shuffle that answers with success, and from true to false only in a reset; no
\* step of a create, delete, wishlist save, read or failed shuffle changes it.
C11_FlipOnlyByShuffleOrReset ==
    [][/\ (~ShuffleCompleted /\ ShuffleCompleted') => FlipBy("shuffle")
       /\ (ShuffleCompleted /\ ~ShuffleCompleted') => FlipBy("reset")]_vars

C11_Witness ==
    \E p \in Procs :
        /\ Succeeded(p, "reset")
        /\ req[p].pre.shuffleCompleted
        /\ ~ShuffleCompleted
        /\ RosterSize >= MinRosterSize

\* the usernames in use when the request arrived
PreUsernames(p) ==
    {req[p].pre.users[id].username : id \in {u \in Ids : req[p].pre.users[u].role # "none"}}

\* the create request got past the admin gate and the checks of the body
CreateAdmitted(p) ==
    /\ Serving(p, "create")
    /\ req[p].status \notin {401, 403}
    /\ req[p].msg \notin {UsernameTooShort, PasswordTooShort}

CreatedRow(p) ==
    /\ req[p].body \in Ids
    /\ users[req[p].body] = NewUserRow(req[p].arg)
    /\ req[p].pre.users[req[p].body] = NoUser

\* C12: a create whose username some user already has (exact, case-sensitive
\* match) adds nothing and is answered with the conflict response; a create
\* whose username differs from every existing one, even only in letter case,
\* succeeds when shuffleCompleted is false.
C12_UsernameConflict ==
    \A p \in Procs :
        CreateAdmitted(p) =>
            /\ req[p].arg \in PreUsernames(p) =>
                  /\ users = req[p].pre.users
                  /\ req[p].pc = "done" =>
                        (req[p].status = 400 /\ req[p].msg = "Username already exists")
            /\ (/\ req[p].arg \notin PreUsernames(p)
                /\ ~req[p].pre.shuffleCompleted
                /\ req[p].pc = "done") =>
                  (req[p].status = 201 /\ CreatedRow(p))

UniqueUsernames ==
    \A id1, id2 \in UserIds : id1 # id2 => users[id1].username # users[id2].username

DeleteAdmitted(p) == Serving(p, "delete") /\ req[p].status \notin {401, 403}

\* C14: a delete whose id is the admin's is answered with a validation error,
\* not with the answer given to an unexpected internal failure, and the admin is
\* still present afterwards; no sequence of requests removes the admin.
C14_AdminNotDeletable ==
    /\ AdminIds # {}
    /\ \A p \in Procs :
          (DeleteAdmitted(p) /\ req[p].pre.users[req[p].arg].role = "admin") =>
              /\ users[req[p].arg].role = "admin"
              /\ req[p].pc = "done" => req[p].status = 400

\* C15: a delete whose id matches no user is not acknowledged as a success, and
\* leaves users, wishlists and assignments unchanged.
C15_DeleteUnknownIdFails ==
    \A p \in Procs :
        (DeleteAdmitted(p) /\ req[p].pre.users[req[p].arg] = NoUser) =>
            /\ users = req[p].pre.users
            /\ wishlistItems = req[p].pre.wishlistItems
            /\ assignments = req[p].pre.assignments
            /\ req[p].pc = "done" => req[p].status \notin {200, 201}

\* every wishlist entry's owner and every assignment row's giver and receiver exist
ReferencesExist ==
    /\ \A id \in Ids : wishlistItems[id] # <<>> => Exists(id)
    /\ \A row \in AssignmentRows : Exists(row[1]) /\ Exists(row[2])

\* the step in which the delete of request p is carried out and acknowledged
DeleteDone(p) ==
    /\ req[p].op = "delete"
    /\ req[p].pc = "deleteUser"
    /\ req'[p].status = 200

CreateDone(p) ==
    /\ req[p].op = "create"
    /\ req[p].pc = "createUser"
    /\ req'[p].status = 201

\* C17: the row a create inserts has role participant whatever role the body
\* carries, wishlistCompleted = false and no wishlist entry; a user gets its
\* first wishlist entry only by its own wishlist save; users appear only by a
\* create.
C17_CreatedAsPlainParticipant ==
    [][/\ \A p \in Procs :
             CreateDone(p) =>
                LET id == req'[p].body IN
                /\ users[id] = NoUser
                /\ users'[id] = [username |-> req[p].arg, role |-> "participant",
                                 wishlistCompleted |-> FALSE]
                /\ wishlistItems'[id] = <<>>
       /\ \A id \in Ids :
             /\ (users[id] = NoUser /\ users'[id] # NoUser) =>
                   \E p \in Procs : CreateDone(p) /\ req'[p].body = id
             /\ (wishlistItems[id] = <<>> /\ wishlistItems'[id] # <<>>) =>
                   \E p \in Procs :
                      /\ req[p].op = "wishlist"
                      /\ req[p].caller = id
                      /\ req[p].pc = "insertWishlist"]_vars

\* an account was created from a body asking for the admin role
C17_Witness ==
    \E p \in Procs :
        /\ Succeeded(p, "create")
        /\ req[p].role = "admin"
        /\ users[req[p].body].role = "participant"
        /\ ~users[req[p].body].wishlistCompleted
        /\ wishlistItems[req[p].body] = <<>>

\* the wishlist save got past requireAuth
SaveAdmitted(p) == Serving(p, "wishlist") /\ req[p].status # 401

NoItems == <<Null, Null, Null>>

\* C18: a wishlist save whose three items are all empty after trimming (missing,
\* empty or blank) is answered with a validation error, stores or changes no
\* wishlist entry and does not set wishlistCompleted.
C18_BlankWishlistRejected ==
    \A p \in Procs :
        (SaveAdmitted(p) /\ req[p].arg = NoItems) =>
            /\ wishlistItems = req[p].pre.wishlistItems
            /\ users = req[p].pre.users
            /\ req[p].pc = "done" => req[p].status = 400

\* C19: a wishlist save replaces the stored entry wholesale: after a successful
\* save each item of the caller's entry equals the trimmed value posted in that
\* call, and an item that was missing or empty in the call is absent, even if an
\* earlier save had stored a value for it.
C19_SaveReplacesEntry ==
    \A p \in Procs :
        Succeeded(p, "wishlist") =>
            /\ wishlistItems[req[p].caller] # <<>>
            /\ \A k \in DOMAIN wishlistItems[req[p].caller] :
                  wishlistItems[req[p].caller][k] = req[p].arg

\* the entry is one row that agrees with every item given in items
HoldsItems(entry, items) ==
    /\ Len(entry) = 1
    /\ \A k \in 1..3 : items[k] # Null => entry[1][k] = items[k]

\* the caller's entry and flag are as a successful save of the same items leaves them
SavedBefore(p) ==
    /\ SaveAdmitted(p)
    /\ HoldsItems(req[p].pre.wishlistItems[req[p].caller], req[p].arg)
    /\ req[p].pre.users[req[p].caller].wishlistCompleted

\* C20: saving the same three items twice in a row is idempotent: a successful
\* save leaves exactly one entry for the caller, holding the items given, and
\* wishlistCompleted = true; a save of the same items on top of that leaves the
\* one entry with the same content and wishlistCompleted = true.
C20_SaveIdempotent ==
    \A p \in Procs :
        /\ Succeeded(p, "wishlist") =>
              /\ HoldsItems(wishlistItems[req[p].caller], req[p].arg)
              /\ users[req[p].caller].wishlistCompleted
        /\ SavedBefore(p) =>
              /\ wishlistItems[req[p].caller] = req[p].pre.wishlistItems[req[p].caller]
              /\ users[req[p].caller].wishlistCompleted

\* the second of two equal saves has been answered
C20_Witness ==
    \E p \in Procs :
        /\ Succeeded(p, "wishlist")
        /\ SavedBefore(p)
        /\ req[p].arg = <<<<"a">>, <<"b">>, <<"c">>>>
        /\ req[p].pre.wishlistItems[req[p].caller] = <<req[p].arg>>
        /\ wishlistItems[req[p].caller] = <<req[p].arg>>
        /\ users[req[p].caller].role = "participant"

\* C21: a wishlist save with at least one non-empty item succeeds whether
\* shuffleCompleted is false or true, leaves the caller's wishlistCompleted true,
\* and at no point changes the assignment set or shuffleCompleted.
C21_SaveAllowedInBothStates ==
    \A p \in Procs :
        (SaveAdmitted(p) /\ req[p].arg # NoItems) =>
            /\ assignments = req[p].pre.assignments
            /\ ShuffleCompleted = req[p].pre.shuffleCompleted
            /\ req[p].pc = "done" =>
                  /\ req[p].status = 200
                  /\ users[req[p].caller].wishlistCompleted
                  /\ wishlistItems[req[p].caller] # <<>>

\* a participant saved a wishlist while the roster was shuffled
C21_Witness ==
    \E p \in Procs :
        /\ Succeeded(p, "wishlist")
        /\ req[p].arg # NoItems
        /\ req[p].pre.shuffleCompleted /\ ShuffleCompleted
        /\ AssignmentCount >= MinRosterSize
        /\ users[req[p].caller].role = "participant"
        /\ users[req[p].caller].wishlistCompleted

\* the roster of a snapshot, and whether a shuffle would accept it
ShuffleReady(snap) == ~NotShuffleReady(snap)

\* C22: a reset that has returned leaves no assignment rows and shuffleCompleted
\* = false; a shuffle that arrives after it (shuffleCompleted false again) on a
\* roster of at least 3 participants, all with wishlistCompleted, is answered
\* with success and leaves a full derangement of the roster and shuffleCompleted
\* = true.
C22_ResetRoundTrip ==
    \A p \in Procs :
        /\ Succeeded(p, "reset") => (assignments = EmptyBag /\ ~ShuffleCompleted)
        /\ (/\ Responded(p, "shuffle")
            /\ req[p].status \notin {401, 403}
            /\ ~req[p].pre.shuffleCompleted
            /\ ShuffleReady(req[p].pre)) =>
               /\ req[p].status = 200
               /\ ShuffleCompleted
               /\ DerangementOfRoster
               /\ SingleCycle

\* the roster found shuffled at start was reset and has been shuffled again
C22_Witness ==
    \E p \in Procs :
        /\ Succeeded(p, "shuffle")
        /\ ~req[p].pre.shuffleCompleted
        /\ req[p].pre.assignments = EmptyBag
        /\ ParticipantIds = SeededRoster
        /\ DerangementOfRoster
        /\ ShuffleCompleted

\* the reset request got past the admin gate
ResetAdmitted(p) == Serving(p, "reset") /\ req[p].status \notin {401, 403}

\* what a reset leaves depends on nothing but the users and wishlists it found
ResetOutcome(p) ==
    /\ assignments = EmptyBag
    /\ ~ShuffleCompleted
    /\ users = req[p].pre.users
    /\ wishlistItems = req[p].pre.wishlistItems

\* C23: a reset none of whose storage calls throws is answered with success and
\* leaves no assignment rows and shuffleCompleted = false, whatever it found (so
\* a second reset leaves what the first left); a reset that arrives while
\* shuffleCompleted is false leaves users, wishlists, assignments and
\* shuffleCompleted as they were.
C23_ResetIdempotent ==
    \A p \in Procs :
        (ResetAdmitted(p) /\ req[p].pc = "done" /\ req[p].status # 500) =>
            /\ req[p].status = 200
            /\ ResetOutcome(p)
            /\ ~req[p].pre.shuffleCompleted => Snapshot = req[p].pre

\* the lookup of the caller's assignment has been answered
AssignmentAnswered(p) == Responded(p, "assignment") /\ req[p].status = 200

\* C24: the lookup of a giver's assignment answers none whenever shuffleCompleted
\* is false (also after a shuffle that failed partway) and whenever the giver
\* has no assignment row; it answers with a receiver only when shuffleCompleted
\* is true.
C24_NoAssignmentWhileOpen ==
    \A p \in Procs :
        AssignmentAnswered(p) =>
            /\ req[p].body # Null => req[p].pre.shuffleCompleted
            /\ (\A row \in BagToSet(req[p].pre.assignments) : row[1] # req[p].caller)
                  => req[p].body = Null

\* the caller of request p was not the admin when the request arrived
NotByAdmin(p) ==
    req[p].caller \notin {id \in Ids : req[p].pre.users[id].role = "admin"}

\* C25: a create, delete, shuffle or reset whose caller is not the admin is
\* rejected, and users, wishlists, assignments and shuffleCompleted stay as they
\* were when it arrived.
C25_AdminGate ==
    \A p \in Procs :
        (req[p].op \in AdminMutations /\ req[p].pc # "idle" /\ NotByAdmin(p)) =>
            /\ Snapshot = req[p].pre
            /\ req[p].pc = "done"
            /\ req[p].status \in {401, 403}

Smallest(S) == CHOOSE x \in S : \A y \in S : x <= y

\* the startup task of slot p is under way
Normalizing(p) == req[p].op = "startup" /\ req[p].pc \notin {"idle", "done"}

\* the accounts and the admins the startup task found
FoundUsers(p) == {id \in Ids : req[p].pre.users[id] # NoUser}
FoundAdmins(p) == {id \in Ids : req[p].pre.users[id].role = "admin"}

\* C26: a startup normalization that finds at least one account ends with
\* exactly one admin, the smallest-id admin it found or, if it found none, the
\* smallest-id account, and touches nothing but roles; one that finds exactly
\* one admin changes nothing; no step outside a normalization changes the set of
\* admins, so exactly one admin remains from then on.
C26_ExactlyOneAdmin ==
    [][/\ \A p \in Procs :
             /\ (Normalizing(p) /\ req'[p].pc = "done" /\ FoundUsers(p) # {}) =>
                   /\ AdminIds' = IF FoundAdmins(p) # {}
                                  THEN {Smallest(FoundAdmins(p))}
                                  ELSE {Smallest(FoundUsers(p))}
                   /\ \A id \in Ids :
                         users'[id] = IF id \in FoundUsers(p)
                                      THEN [req[p].pre.users[id] EXCEPT
                                               !.role = IF id \in AdminIds' THEN "admin"
                                                        ELSE "participant"]
                                      ELSE NoUser
             /\ (Normalizing(p) /\ Cardinality(FoundAdmins(p)) = 1) => users' = users
       /\ (\A p \in Procs : ~Normalizing(p)) => AdminIds' = AdminIds
       /\ Cardinality(AdminIds) = 1 => Cardinality(AdminIds') = 1]_vars

\* the startup task found two admins and has demoted the second
C26_Witness ==
    \E p \in Procs :
        /\ req[p].op = "startup" /\ req[p].pc = "done"
        /\ FoundAdmins(p) = {1, 2}
        /\ AdminIds = {1}
        /\ users[2].role = "participant"

\* C27: in every state no assignment row has an admin as giver or receiver, and
\* no roster returned by getAllParticipants (to GET /api/participants or to a
\* shuffle) contains an admin.
C27_AdminOutsideRoster ==
    /\ \A row \in AssignmentRows : ~IsAdmin(row[1]) /\ ~IsAdmin(row[2])
    /\ \A p \in Procs :
          /\ (Responded(p, "participants") /\ req[p].status = 200) =>
                \A k \in DOMAIN req[p].body : ~IsAdmin(req[p].body[k])
          /\ (req[p].op = "shuffle" /\ req[p].pc = "deleteAllAssignments") =>
                \A k \in DOMAIN req[p].loc.ids : ~IsAdmin(req[p].loc.ids[k])

RECURSIVE Factorial(_)
Factorial(n) == IF n <= 1 THEN 1 ELSE n * Factorial(n - 1)

ArrayRange(a) == {a[k] : k \in DOMAIN a}

\* the ids met by following k links of the mapping f from x
RECURSIVE Orbit(_, _, _)
Orbit(f, x, k) == IF k = 0 THEN {} ELSE {f[x]} \cup Orbit(f, f[x], k - 1)

\* ids[k] -> receivers[k] is one cycle through all of ids
IsFullCycle(ids, receivers) ==
    /\ ArrayRange(receivers) = ArrayRange(ids)
    /\ LET f == [x \in ArrayRange(ids) |->
                    receivers[CHOOSE k \in DOMAIN ids : ids[k] = x]]
       IN Orbit(f, ids[0], ArrayLen(ids)) = ArrayRange(ids)

FullCycles(ids) ==
    {receivers \in [DOMAIN ids -> ArrayRange(ids)] : IsFullCycle(ids, receivers)}

\* what the pass can return for ids, over every sequence of draws
Outcomes(ids) == {Sattolo(ids, draws) : draws \in DrawSequences(ArrayLen(ids))}

Roster123 == [k \in 0..2 |-> k + 1]

\* C28: for the roster a shuffle has read (n ids), the outcomes of the Sattolo
\* pass over all sequences of draws are exactly the cycles through all n ids,
\* there are (n-1)! of them and as many sequences of draws, so each cycle comes
\* from exactly one sequence; the receivers a shuffle then holds form such a
\* cycle; for roster [1,2,3] the outcomes are 1->2, 2->3, 3->1 and 1->3, 3->2,
\* 2->1.
C28_SattoloOutcomes ==
    /\ Outcomes(Roster123) = {[k \in 0..2 |-> <<2, 3, 1>>[k + 1]],
                              [k \in 0..2 |-> <<3, 1, 2>>[k + 1]]}
    /\ \A p \in Procs :
          /\ (req[p].op = "shuffle" /\ req[p].pc = "deleteAllAssignments") =>
                LET ids == req[p].loc.ids
                    n == ArrayLen(ids)
                    outcomes == Outcomes(ids)
                IN /\ outcomes = FullCycles(ids)
                   /\ Cardinality(outcomes) = Factorial(n - 1)
                   /\ Cardinality(DrawSequences(n)) = Factorial(n - 1)
          /\ (req[p].op = "shuffle" /\ req[p].pc = "createAssignment") =>
                IsFullCycle(req[p].loc.ids, req[p].loc.receivers)

\* a shuffle of four ids has drawn the cycle 2 -> 4 -> 3 -> 5 -> 2
C28_Witness ==
    \E p \in Procs :
        /\ req[p].op = "shuffle" /\ req[p].pc = "createAssignment"
        /\ req[p].loc.ids = [k \in 0..3 |-> k + 2]
        /\ req[p].loc.receivers = [k \in 0..3 |-> <<4, 5, 3, 2>>[k + 1]]

\* no handler is between two of its storage calls
Quiescent == \A p \in Procs : req[p].pc \in {"idle", "done"}

\* C29: however the handlers interleaved, once they have all answered, no
\* storage call having thrown, and shuffleCompleted = true, every participant is the giver of exactly one
\* assignment row and the receiver of exactly one, and every row's giver and
\* receiver are participants of the current roster.
C29_ShuffledMeansFullSet ==
    (ShuffleCompleted /\ Quiescent /\ faults = 0) =>
        /\ \A id \in ParticipantIds : RowsGivenBy(id) = 1 /\ RowsReceivedBy(id) = 1
        /\ \A row \in AssignmentRows :
              row[1] \in ParticipantIds /\ row[2] \in ParticipantIds

\* C30: of two shuffles that both arrived while shuffleCompleted was false, once
\* both have answered (no storage call having thrown) at most one was answered
\* with success, and no giver has more than one assignment row.
C30_OneShuffleWins ==
    \A p, q \in Procs :
        (/\ p # q
         /\ Responded(p, "shuffle") /\ Responded(q, "shuffle")
         /\ ~req[p].pre.shuffleCompleted /\ ~req[q].pre.shuffleCompleted
         /\ faults = 0) =>
            /\ ~(req[p].status = 200 /\ req[q].status = 200)
            /\ \A id \in Ids : RowsGivenBy(id) <= 1

\* the account has a wishlist entry with at least one item that is not NULL
HasNonEmptyItem(id) ==
    \E k \in DOMAIN wishlistItems[id] :
        \E j \in DOMAIN wishlistItems[id][k] : wishlistItems[id][k][j] # Null

CompletedParticipants ==
    {id \in ParticipantIds : users[id].wishlistCompleted}

\* C31: in every reachable state a participant with wishlistCompleted = true
\* has a wishlist entry with at least one non-empty item, and wishlistCompleted,
\* once true for a participant, never becomes false again as long as the
\* account exists, not even through a reset.
C31_CompletedMeansHasItem ==
    [][/\ \A id \in CompletedParticipants' : HasNonEmptyItem(id)'
       /\ \A id \in Ids :
            (Exists(id) /\ users[id].wishlistCompleted /\ Exists(id)') =>
                users'[id].wishlistCompleted]_vars

\* the step is one of proc p's reset request: its arrival, one of its storage
\* calls, or its return
ResetStep(p) ==
    /\ req'[p] # req[p]
    /\ req[p].op = "reset" \/ req'[p].op = "reset"

\* C32: a reset changes nothing but the assignment rows and shuffleCompleted:
\* none of its steps changes the users table (the participants, their roles,
\* their wishlistCompleted flags) or the wishlist entries, so when it returns
\* both are as the reset found them, and a roster that a shuffle would accept
\* before the reset is one it would accept after it.
C32_ResetFrame ==
    [][\A p \in Procs :
          /\ ResetStep(p) =>
                /\ users' = users
                /\ nextId' = nextId
                /\ wishlistItems' = wishlistItems
          /\ Responded(p, "reset")' =>
                /\ users' = req'[p].pre.users
                /\ wishlistItems' = req'[p].pre.wishlistItems
                /\ ShuffleReady(req'[p].pre)
                      <=> ShuffleReady(Snapshot')]_vars

\* a reset of the shuffled roster has returned: the rows are gone, the roster
\* and its wishlists are those the shuffle ran on
C32_Witness ==
    \E p \in Procs :
        /\ Succeeded(p, "reset")
        /\ req[p].pre.shuffleCompleted
        /\ BagCardinality(req[p].pre.assignments) >= MinRosterSize
        /\ assignments = EmptyBag
        /\ ~ShuffleCompleted
        /\ ParticipantIds = SeededRoster
        /\ \A id \in SeededRoster : users[id].wishlistCompleted /\ HasNonEmptyItem(id)
        /\ ShuffleReady(Snapshot)

\* C33: app_state is a singleton: whatever the interleaving of the requests
\* that call getAppState or setShuffleCompleted, two first calls that both find
\* the table empty included, the table holds at most one row (so that every
\* reader gets the row the latest setShuffleCompleted wrote).
C33_AppStateSingleton == Len(appState) <= 1

\* the shuffle's Sattolo pass over its roster makes n - 1 swaps whatever the
\* draws, and its insert loop has made as many inserts as its index says: the
\* table, emptied before the loop, holds i rows before the insert of index i
\* and n rows once the loop has ended
ShuffleLoopCounts(p) ==
    LET l == req[p].loc
        n == ArrayLen(l.ids)
    IN  /\ req[p].pc = "deleteAllAssignments" =>
              \A draws \in DrawSequences(n) : SattoloSwaps(l.ids, n - 1, draws) = n - 1
        /\ req[p].pc = "createAssignment" => (l.i < n /\ AssignmentCount = l.i)
        /\ req[p].stage = "set" => (l.i = n - 1 /\ AssignmentCount = n)

====
